---- MODULE Spec2Model ----
(***************************************************************************)
(* Token codec of package utils (src/utils/tokensAndEncryption.go):        *)
(* GenerateAccessToken, GenerateRefreshToken, ValidateToken, EncryptData   *)
(* and DecryptData over ChaCha20-Poly1305, hex and JSON.                   *)
(*                                                                         *)
(* Representation.                                                         *)
(*   string / []byte of text : sequence of one-character strings           *)
(*   hex string (key, token) : sequence of characters, a character being   *)
(*       <<"x", d>>   the literal character d                              *)
(*       <<"hi", b>>  the first hex digit EncodeToString writes for the    *)
(*       <<"lo", b>>  sealed byte b, and the second                        *)
(*   byte of sealed data     : <<"b", n>>, the byte n in 0..255, or        *)
(*       <<"s", n, i>>, byte i of the n-th box that Seal made, or          *)
(*       <<"m", c1, c2>>, the byte two unrelated hex digits decode to      *)
(* ChaCha20-Poly1305 is the ideal AEAD: seals records every (key, nonce,   *)
(* plaintext) that was sealed, Seal is a function of the three, and Open   *)
(* succeeds exactly on a box Seal made under the same key and nonce.       *)
(*                                                                         *)
(* Package mailer (src/unnamed/part_000): Initialize under sync.Once and   *)
(* HandleSendEmail, which reads isInitialized and mailerConfig without     *)
(* synchronisation. Package storage (src/storage/mongodb.go, files.go):    *)
(* Initialize, InitializeFiles and getMongoClient over the package         *)
(* variable configError that the two files share.                          *)
(*                                                                         *)
(* Specifications.                                                         *)
(*   Spec          the codec, one call after another, MaxLive tokens       *)
(*   SpecMint      the minting calls alone, MaxIssued tokens               *)
(*   SpecRepeat    a caller that validates a token time and again          *)
(*   SpecConc      the codec called from two goroutines at once            *)
(*   SpecMailerSeq package mailer called from one goroutine                *)
(*   SpecMailer    package mailer called from two goroutines at once       *)
(*   SpecStorage   package storage, one call after another                 *)
(***************************************************************************)
EXTENDS Integers, Sequences, FiniteSets, TLC

VARIABLES
    now,     \* the wall clock, in seconds
    ticks,   \* how often the clock has moved
    call,    \* the mint call between its two readings of the clock
    seals,   \* what the AEAD has sealed
    issued,  \* the tokens EncryptData returned, with the arguments of each call
    out,     \* what the last call returned, until its caller takes it
    th,      \* the calls that run concurrently, each with its local variables
    seen,    \* what the caller of ValidateToken got for each token the last time
    mailer,  \* package mailer: mailerConfig, configInit and isInitialized
    mg,      \* the goroutines that call package mailer, each with its locals
    storage, \* package storage: the variables of mongodb.go and of files.go
    slog     \* the calls of package storage that have returned, in their order

vars == <<now, ticks, call, seals, issued, out, th, seen, mailer, mg, storage, slog>>
\* what the callers that run one call after the other leave alone
otherVars == <<th, seen, mailer, mg, storage, slog>>
\* what package mailer leaves alone
notMailerVars == <<now, ticks, call, seals, issued, out, th, seen, storage, slog>>
\* what package storage leaves alone
notStorageVars == <<now, ticks, call, seals, issued, out, th, seen, mailer, mg>>

\* ------------------------------------------------------------- bounds
MaxLive == 1
MaxIssued == 2
MaxTicks == 2
MaxConcTicks == 1
StartTime == 100

\* ---------------------------------------------------- program constants
AccessTTL == 900
RefreshTTL == 604800
NonceSize == 12
Overhead == 16
KeySize == 32

\* ------------------------------------------------------------- errors
NilErr == ""
ErrHexInvalidByte == "encoding/hex: invalid byte"
ErrHexLength == "encoding/hex: odd length hex string"
ErrKeyLength == "chacha20poly1305: bad key length"
ErrOpen == "chacha20poly1305: message authentication failed"
ErrJSONSyntax == "json: syntax error"
ErrJSONType == "json: cannot unmarshal value into Go struct field"
ErrExpired == "token expired"

\* ------------------------------------------------------- sequence help
Rep(x, n) == [i \in 1..n |-> x]

RECURSIVE Flatten(_)
Flatten(ss) == IF ss = <<>> THEN <<>> ELSE Head(ss) \o Flatten(Tail(ss))

\* ---------------------------------------------------------------- hex
LowerDigits == <<"0","1","2","3","4","5","6","7","8","9","a","b","c","d","e","f">>
UpperDigits == <<"0","1","2","3","4","5","6","7","8","9","A","B","C","D","E","F">>

Lit(s) == [i \in 1..Len(s) |-> <<"x", s[i]>>]

IsHexChar(c) ==
    \/ c[1] \in {"hi", "lo"}
    \/ c[1] = "x" /\ \E i \in 1..16 : LowerDigits[i] = c[2] \/ UpperDigits[i] = c[2]

FromHexChar(c) == (CHOOSE i \in 1..16 : LowerDigits[i] = c[2] \/ UpperDigits[i] = c[2]) - 1

\* one byte from the two hex digits p q
DecodeByte(p, q) ==
    IF p[1] = "x" /\ q[1] = "x" THEN <<"b", 16 * FromHexChar(p) + FromHexChar(q)>>
    ELSE IF p[1] = "hi" /\ q[1] = "lo" /\ p[2] = q[2] THEN p[2]
    ELSE <<"m", p, q>>

\* hex.DecodeString: [err, bytes]
DecodeString(s) ==
    IF \E i \in 1..Len(s) : ~IsHexChar(s[i])
    THEN [err |-> ErrHexInvalidByte, bytes |-> <<>>]
    ELSE IF Len(s) % 2 = 1
    THEN [err |-> ErrHexLength, bytes |-> <<>>]
    ELSE [err |-> NilErr,
          bytes |-> [i \in 1..(Len(s) \div 2) |-> DecodeByte(s[2 * i - 1], s[2 * i])]]

EncodeByte(b) ==
    IF b[1] = "b"
    THEN <<<<"x", LowerDigits[(b[2] \div 16) + 1]>>, <<"x", LowerDigits[(b[2] % 16) + 1]>>>>
    ELSE <<<<"hi", b>>, <<"lo", b>>>>

\* hex.EncodeToString: two digits a byte
EncodeToString(bs) ==
    [j \in 1..(2 * Len(bs)) |-> EncodeByte(bs[(j + 1) \div 2])[2 - (j % 2)]]

\* --------------------------------------------------------------- AEAD
\* a cipher that also takes keys of half the size
NewAEADHalfKey(key) == IF Len(key) \in {KeySize \div 2, KeySize} THEN NilErr ELSE ErrKeyLength

\* chacha20poly1305.New: the key must be KeySize bytes
NewAEAD(key) == IF Len(key) = KeySize THEN NilErr ELSE ErrKeyLength

\* the box of (key, nonce, pt) in seals, or the next free place
SealId(key, nonce, pt) ==
    LET rec == [key |-> key, nonce |-> nonce, pt |-> pt]
    IN  IF \E n \in 1..Len(seals) : seals[n] = rec
        THEN CHOOSE n \in 1..Len(seals) : seals[n] = rec
        ELSE Len(seals) + 1

Box(n, len) == [i \in 1..(len + Overhead) |-> <<"s", n, i>>]

\* aead.Seal(nil, nonce, plaintext, nil): Len(pt) + Overhead bytes
Seal(key, nonce, pt) == Box(SealId(key, nonce, pt), Len(pt))

\* seals once Seal(key, nonce, pt) has run
Sealed(key, nonce, pt) ==
    IF SealId(key, nonce, pt) <= Len(seals) THEN seals
    ELSE Append(seals, [key |-> key, nonce |-> nonce, pt |-> pt])

\* aead.Open(nil, nonce, box, nil): [err, pt]
Open(key, nonce, box) ==
    IF /\ Len(box) >= Overhead
       /\ box[1][1] = "s"
       /\ box[1][2] \in 1..Len(seals)
       /\ seals[box[1][2]].key = key
       /\ seals[box[1][2]].nonce = nonce
       /\ box = Box(box[1][2], Len(seals[box[1][2]].pt))
    THEN [err |-> NilErr, pt |-> seals[box[1][2]].pt]
    ELSE [err |-> ErrOpen, pt |-> <<>>]

\* --------------------------------------------------------------- JSON
\* The subset of encoding/json the codec exercises: an object of string,
\* integer and null members without white space, and a scalar at top level.
Q == "\""
BS == "\\"
\* a byte that is not valid UTF-8, and U+FFFD which encoding/json puts for it
BadByte == "<ff>"
ReplacementChar == "<fffd>"
Digits == <<"0","1","2","3","4","5","6","7","8","9">>
KeyId == <<"i","d">>
KeyExpiresAt == <<"e","x","p","i","r","e","s","A","t">>
KeyIssuedAt == <<"i","s","s","u","e","d","A","t">>

IsDigit(c) == \E i \in 1..10 : Digits[i] = c
DigitVal(c) == (CHOOSE i \in 1..10 : Digits[i] = c) - 1

RECURSIVE Itoa(_)
Itoa(n) ==
    IF n < 0 THEN <<"-">> \o Itoa(-n)
    ELSE IF n < 10 THEN <<Digits[n + 1]>>
    ELSE Itoa(n \div 10) \o <<Digits[(n % 10) + 1]>>

EscapeChar(c) ==
    IF c = Q THEN <<BS, Q>>
    ELSE IF c = BS THEN <<BS, BS>>
    ELSE IF c = BadByte THEN <<BS, "u", "f", "f", "f", "d">>
    ELSE <<c>>

Quote(s) == <<Q>> \o Flatten([i \in 1..Len(s) |-> EscapeChar(s[i])]) \o <<Q>>

ZeroClaims == [Id |-> <<>>, ExpiresAt |-> 0, IssuedAt |-> 0]

\* json.Marshal(claims): the fields in declaration order under their tags
Marshal(c) ==
    <<"{">> \o Quote(KeyId) \o <<":">> \o Quote(c.Id) \o <<",">>
        \o Quote(KeyExpiresAt) \o <<":">> \o Itoa(c.ExpiresAt) \o <<",">>
        \o Quote(KeyIssuedAt) \o <<":">> \o Itoa(c.IssuedAt) \o <<"}">>

NoValue == [ok |-> FALSE, kind |-> "", str |-> <<>>, num |-> 0, next |-> 0]

\* the string whose opening quote precedes t[i]
RECURSIVE ScanString(_, _, _)
ScanString(t, i, acc) ==
    IF i > Len(t) THEN NoValue
    ELSE IF t[i] = Q
    THEN [ok |-> TRUE, kind |-> "string", str |-> acc, num |-> 0, next |-> i + 1]
    ELSE IF t[i] = BS
    THEN IF i + 1 <= Len(t) /\ t[i + 1] \in {Q, BS}
         THEN ScanString(t, i + 2, Append(acc, t[i + 1]))
         ELSE IF i + 5 <= Len(t) /\ SubSeq(t, i + 1, i + 5) = <<"u", "f", "f", "f", "d">>
         THEN ScanString(t, i + 6, Append(acc, ReplacementChar))
         ELSE NoValue
    ELSE ScanString(t, i + 1, Append(acc, IF t[i] = BadByte THEN ReplacementChar ELSE t[i]))

RECURSIVE ScanDigits(_, _, _)
ScanDigits(t, i, acc) ==
    IF i <= Len(t) /\ IsDigit(t[i])
    THEN ScanDigits(t, i + 1, acc * 10 + DigitVal(t[i]))
    ELSE [val |-> acc, next |-> i]

ScanNumber(t, i) ==
    LET neg == t[i] = "-"
        j == IF neg THEN i + 1 ELSE i
    IN  IF j > Len(t) \/ ~IsDigit(t[j]) THEN NoValue
        ELSE IF t[j] = "0" /\ j + 1 <= Len(t) /\ IsDigit(t[j + 1]) THEN NoValue
        ELSE LET d == ScanDigits(t, j, 0)
             IN  [ok |-> TRUE, kind |-> "number", str |-> <<>>,
                  num |-> IF neg THEN 0 - d.val ELSE d.val, next |-> d.next]

ParseValue(t, i) ==
    IF i > Len(t) THEN NoValue
    ELSE IF t[i] = Q THEN ScanString(t, i + 1, <<>>)
    ELSE IF IsDigit(t[i]) \/ t[i] = "-" THEN ScanNumber(t, i)
    ELSE IF i + 3 <= Len(t) /\ SubSeq(t, i, i + 3) = <<"n", "u", "l", "l">>
    THEN [ok |-> TRUE, kind |-> "null", str |-> <<>>, num |-> 0, next |-> i + 4]
    ELSE NoValue

NoMembers == [ok |-> FALSE, members |-> <<>>]

\* the members of an object from t[i] to its closing brace, the last character
RECURSIVE ParseMembers(_, _, _)
ParseMembers(t, i, acc) ==
    IF i > Len(t) \/ t[i] # Q THEN NoMembers
    ELSE LET k == ScanString(t, i + 1, <<>>)
         IN  IF ~k.ok \/ k.next > Len(t) \/ t[k.next] # ":" THEN NoMembers
             ELSE LET v == ParseValue(t, k.next + 1)
                      m == [key |-> k.str, kind |-> v.kind, str |-> v.str, num |-> v.num]
                  IN  IF ~v.ok \/ v.next > Len(t) THEN NoMembers
                      ELSE IF t[v.next] = "," THEN ParseMembers(t, v.next + 1, Append(acc, m))
                      ELSE IF t[v.next] = "}" /\ v.next = Len(t)
                      THEN [ok |-> TRUE, members |-> Append(acc, m)]
                      ELSE NoMembers

\* one member stored into the struct: a missing field keeps its zero value, an
\* unknown key and a null are skipped, a value of the wrong type is an error
StoreMember(r, m) ==
    IF m.kind = "null" THEN r
    ELSE IF m.key = KeyId
    THEN IF m.kind = "string" THEN [r EXCEPT !.claims.Id = m.str]
         ELSE [r EXCEPT !.err = IF r.err = NilErr THEN ErrJSONType ELSE r.err]
    ELSE IF m.key = KeyExpiresAt
    THEN IF m.kind = "number" THEN [r EXCEPT !.claims.ExpiresAt = m.num]
         ELSE [r EXCEPT !.err = IF r.err = NilErr THEN ErrJSONType ELSE r.err]
    ELSE IF m.key = KeyIssuedAt
    THEN IF m.kind = "number" THEN [r EXCEPT !.claims.IssuedAt = m.num]
         ELSE [r EXCEPT !.err = IF r.err = NilErr THEN ErrJSONType ELSE r.err]
    ELSE r

RECURSIVE StoreMembers(_, _)
StoreMembers(r, ms) ==
    IF ms = <<>> THEN r ELSE StoreMembers(StoreMember(r, Head(ms)), Tail(ms))

\* json.Unmarshal(text, &Claims{}): [err, claims]
Unmarshal(t) ==
    LET syntax == [err |-> ErrJSONSyntax, claims |-> ZeroClaims]
        zero == [err |-> NilErr, claims |-> ZeroClaims]
    IN  IF Len(t) = 0 THEN syntax
        ELSE IF t[1] = "{"
        THEN IF t = <<"{", "}">> THEN zero
             ELSE LET p == ParseMembers(t, 2, <<>>)
                  IN  IF p.ok THEN StoreMembers(zero, p.members) ELSE syntax
        ELSE LET v == ParseValue(t, 1)
             IN  IF v.ok /\ v.next = Len(t) + 1
                 THEN IF v.kind = "null" THEN zero
                      ELSE [err |-> ErrJSONType, claims |-> ZeroClaims]
                 ELSE syntax

\* -------------------------------------------------------------- codec
NoToken == <<>>
NilClaims == [nil |-> TRUE, v |-> ZeroClaims]

\* EncryptData sealing under a nonce of zeros, whatever rand.Reader gives
EncryptDataFixedNonce(plaintext, hexKey, rnd) ==
    LET key == DecodeString(hexKey)
        nonce == Rep(<<"b", 0>>, NonceSize)
    IN  IF key.err # NilErr
        THEN [panic |-> TRUE, token |-> <<>>, err |-> NilErr, seals |-> seals]
        ELSE IF NewAEAD(key.bytes) # NilErr
        THEN [panic |-> FALSE, token |-> <<>>, err |-> NewAEAD(key.bytes), seals |-> seals]
        ELSE [panic |-> FALSE,
              token |-> EncodeToString(nonce \o Seal(key.bytes, nonce, plaintext)),
              err |-> NilErr,
              seals |-> Sealed(key.bytes, nonce, plaintext)]

\* EncryptData returning the sealed bytes without the nonce before them
EncryptDataNoNonce(plaintext, hexKey, rnd) ==
    LET key == DecodeString(hexKey)
    IN  IF key.err # NilErr
        THEN [panic |-> TRUE, token |-> <<>>, err |-> NilErr, seals |-> seals]
        ELSE IF NewAEAD(key.bytes) # NilErr
        THEN [panic |-> FALSE, token |-> <<>>, err |-> NewAEAD(key.bytes), seals |-> seals]
        ELSE [panic |-> FALSE,
              token |-> EncodeToString(Seal(key.bytes, rnd, plaintext)),
              err |-> NilErr,
              seals |-> Sealed(key.bytes, rnd, plaintext)]

\* EncryptData(plaintext, hexKey), rnd being the NonceSize bytes rand.Reader
\* gives: [panic, token, err], and seals as the call leaves it
EncryptData(plaintext, hexKey, rnd) ==
    LET key == DecodeString(hexKey)
    IN  IF key.err # NilErr
        THEN [panic |-> TRUE, token |-> <<>>, err |-> NilErr, seals |-> seals]
        ELSE IF NewAEAD(key.bytes) # NilErr
        THEN [panic |-> FALSE, token |-> <<>>, err |-> NewAEAD(key.bytes), seals |-> seals]
        ELSE [panic |-> FALSE,
              token |-> EncodeToString(rnd \o Seal(key.bytes, rnd, plaintext)),
              err |-> NilErr,
              seals |-> Sealed(key.bytes, rnd, plaintext)]

\* DecryptData taking the nonce the box was sealed with, not the token's
DecryptDataNonceUnchecked(ciphertextHex, hexKey) ==
    LET key == DecodeString(hexKey)
        ciphertext == DecodeString(ciphertextHex)
        box == SubSeq(ciphertext.bytes, NonceSize + 1, Len(ciphertext.bytes))
        nonce == IF Len(box) > 0 /\ box[1][1] = "s" /\ box[1][2] \in 1..Len(seals)
                 THEN seals[box[1][2]].nonce
                 ELSE SubSeq(ciphertext.bytes, 1, NonceSize)
        opened == Open(key.bytes, nonce, box)
    IN  IF key.err # NilErr
        THEN [panic |-> TRUE, pt |-> <<>>, err |-> NilErr]
        ELSE IF ciphertext.err # NilErr
        THEN [panic |-> FALSE, pt |-> <<>>, err |-> ciphertext.err]
        ELSE IF NewAEAD(key.bytes) # NilErr
        THEN [panic |-> FALSE, pt |-> <<>>, err |-> NewAEAD(key.bytes)]
        ELSE IF Len(ciphertext.bytes) < NonceSize
        THEN [panic |-> TRUE, pt |-> <<>>, err |-> NilErr]
        ELSE IF opened.err # NilErr
        THEN [panic |-> FALSE, pt |-> <<>>, err |-> opened.err]
        ELSE [panic |-> FALSE, pt |-> opened.pt, err |-> NilErr]

\* DecryptData(ciphertextHex, hexKey): [panic, pt, err]
DecryptData(ciphertextHex, hexKey) ==
    LET key == DecodeString(hexKey)
        ciphertext == DecodeString(ciphertextHex)
        nonce == SubSeq(ciphertext.bytes, 1, NonceSize)
        box == SubSeq(ciphertext.bytes, NonceSize + 1, Len(ciphertext.bytes))
        opened == Open(key.bytes, nonce, box)
    IN  IF key.err # NilErr
        THEN [panic |-> TRUE, pt |-> <<>>, err |-> NilErr]
        ELSE IF ciphertext.err # NilErr
        THEN [panic |-> FALSE, pt |-> <<>>, err |-> ciphertext.err]
        ELSE IF NewAEAD(key.bytes) # NilErr
        THEN [panic |-> FALSE, pt |-> <<>>, err |-> NewAEAD(key.bytes)]
        ELSE IF Len(ciphertext.bytes) < NonceSize
        THEN [panic |-> TRUE, pt |-> <<>>, err |-> NilErr]
        ELSE IF opened.err # NilErr
        THEN [panic |-> FALSE, pt |-> <<>>, err |-> opened.err]
        ELSE [panic |-> FALSE, pt |-> opened.pt, err |-> NilErr]

\* GenerateAccessToken(userId, hexKey), t1 and t2 being what the two calls
\* of time.Now() return, in the order the struct literal makes them
GenerateAccessToken(userId, hexKey, t1, t2, rnd) ==
    EncryptData(Marshal([Id |-> userId, ExpiresAt |-> t1 + AccessTTL, IssuedAt |-> t2]),
                hexKey, rnd)

GenerateRefreshToken(userId, hexKey, t1, t2, rnd) ==
    EncryptData(Marshal([Id |-> userId, ExpiresAt |-> t1 + RefreshTTL, IssuedAt |-> t2]),
                hexKey, rnd)

\* ValidateToken going on to the claims when DecryptData returned an error
ValidateTokenIgnoresErr(tokenStr, hexKey, t) ==
    LET d == DecryptData(tokenStr, hexKey)
        u == Unmarshal(d.pt)
    IN  IF d.panic
        THEN [panic |-> TRUE, claims |-> NilClaims, err |-> NilErr]
        ELSE IF u.err # NilErr
        THEN [panic |-> FALSE, claims |-> NilClaims, err |-> u.err]
        ELSE IF u.claims.ExpiresAt < t
        THEN [panic |-> FALSE, claims |-> NilClaims, err |-> ErrExpired]
        ELSE [panic |-> FALSE, claims |-> [nil |-> FALSE, v |-> u.claims], err |-> NilErr]

\* ValidateToken comparing with <= : the expiry second is already too late
ValidateTokenLE(tokenStr, hexKey, t) ==
    LET d == DecryptData(tokenStr, hexKey)
        u == Unmarshal(d.pt)
    IN  IF d.panic
        THEN [panic |-> TRUE, claims |-> NilClaims, err |-> NilErr]
        ELSE IF d.err # NilErr
        THEN [panic |-> FALSE, claims |-> NilClaims, err |-> d.err]
        ELSE IF u.err # NilErr
        THEN [panic |-> FALSE, claims |-> NilClaims, err |-> u.err]
        ELSE IF u.claims.ExpiresAt <= t
        THEN [panic |-> FALSE, claims |-> NilClaims, err |-> ErrExpired]
        ELSE [panic |-> FALSE, claims |-> [nil |-> FALSE, v |-> u.claims], err |-> NilErr]

\* ValidateToken handing the claims back with the expiry error
ValidateTokenPartial(tokenStr, hexKey, t) ==
    LET d == DecryptData(tokenStr, hexKey)
        u == Unmarshal(d.pt)
    IN  IF d.panic
        THEN [panic |-> TRUE, claims |-> NilClaims, err |-> NilErr]
        ELSE IF d.err # NilErr
        THEN [panic |-> FALSE, claims |-> NilClaims, err |-> d.err]
        ELSE IF u.err # NilErr
        THEN [panic |-> FALSE, claims |-> NilClaims, err |-> u.err]
        ELSE IF u.claims.ExpiresAt < t
        THEN [panic |-> FALSE, claims |-> [nil |-> FALSE, v |-> u.claims], err |-> ErrExpired]
        ELSE [panic |-> FALSE, claims |-> [nil |-> FALSE, v |-> u.claims], err |-> NilErr]

\* ValidateToken going on to the expiry check when json.Unmarshal failed
ValidateTokenSkipsJSONErr(tokenStr, hexKey, t) ==
    LET d == DecryptData(tokenStr, hexKey)
        u == Unmarshal(d.pt)
    IN  IF d.panic
        THEN [panic |-> TRUE, claims |-> NilClaims, err |-> NilErr]
        ELSE IF d.err # NilErr
        THEN [panic |-> FALSE, claims |-> NilClaims, err |-> d.err]
        ELSE IF u.claims.ExpiresAt < t
        THEN [panic |-> FALSE, claims |-> NilClaims, err |-> ErrExpired]
        ELSE [panic |-> FALSE, claims |-> [nil |-> FALSE, v |-> u.claims], err |-> NilErr]

\* ValidateToken(tokenStr, hexKey), t being what time.Now() returns:
\* [panic, claims, err]
ValidateToken(tokenStr, hexKey, t) ==
    LET d == DecryptData(tokenStr, hexKey)
        u == Unmarshal(d.pt)
    IN  IF d.panic
        THEN [panic |-> TRUE, claims |-> NilClaims, err |-> NilErr]
        ELSE IF d.err # NilErr
        THEN [panic |-> FALSE, claims |-> NilClaims, err |-> d.err]
        ELSE IF u.err # NilErr
        THEN [panic |-> FALSE, claims |-> NilClaims, err |-> u.err]
        ELSE IF u.claims.ExpiresAt < t
        THEN [panic |-> FALSE, claims |-> NilClaims, err |-> ErrExpired]
        ELSE [panic |-> FALSE, claims |-> [nil |-> FALSE, v |-> u.claims], err |-> NilErr]

\* ------------------------------------------------------------- inputs
Ids == {<<"u", Q, BS>>, <<BadByte>>}

Key1 == Lit(Rep("0", 2 * KeySize - 1) \o <<"a">>)
Key1Upper == Lit(Rep("0", 2 * KeySize - 1) \o <<"A">>)
Key2 == Lit(Rep("0", 2 * KeySize - 1) \o <<"b">>)
KeyNotHex == Lit(Rep("0", 2 * KeySize - 1) \o <<"g">>)
KeyHalf == Lit(Rep("0", KeySize))
\* the keys the minting calls are given, and those the validating calls are
MintKeys == {Key1, Key2, KeyNotHex, KeyHalf}
HexKeys == MintKeys \cup {Key1Upper}

Nonces == {Rep(<<"b", 0>>, NonceSize),
           Rep(<<"b", 0>>, NonceSize - 1) \o <<<<"b", 1>>>>}

\* plaintexts a caller seals with EncryptData directly
Payloads == {<<"{", "}">>,
             <<"{", Q, "i", "d", Q, ":", "7", "}">>,
             <<"j", "u", "n", "k">>}

\* token strings that no EncryptData call returned
Malformed == {<<>>,
              Lit(<<"z", "z">>),
              Lit(<<"a", "b", "c">>),
              Lit(Rep("0", 2 * NonceSize - 2)),
              Lit(Rep("0", 2 * NonceSize))}

\* the token with byte p of its sealed bytes replaced by another byte
Flip(b) == IF b = <<"b", 255>> THEN <<"b", 0>> ELSE <<"b", 255>>
Tamper(tokenStr, p) ==
    LET bs == DecodeString(tokenStr).bytes
    IN  EncodeToString([bs EXCEPT ![p] = Flip(bs[p])])

\* first and last byte of the nonce, of the ciphertext and of the tag
TamperAt(tokenStr) ==
    LET n == Len(tokenStr) \div 2
    IN  {1, NonceSize, NonceSize + 1, n - Overhead, n - Overhead + 1, n}

\* ------------------------------------------------------------- state
Idle == [op |-> "idle", id |-> <<>>, key |-> <<>>, t1 |-> 0]
NoOut == [op |-> "none", src |-> 0, tamper |-> 0, token |-> NoToken, key |-> <<>>,
          t |-> 0, panic |-> FALSE, claims |-> NilClaims, err |-> NilErr]

\* no validation of the token yet
NoSeen == [status |-> "none", claims |-> ZeroClaims, t |-> 0]

\* the goroutines that call the codec at the same time
Threads == {1, 2}
NoKey == [err |-> NilErr, bytes |-> <<>>]
NoRes == [panic |-> FALSE, token |-> NoToken, claims |-> NilClaims, err |-> NilErr]
\* a goroutine outside any call: its position and the locals of its call
IdleThread == [pc |-> "idle", op |-> "none", id |-> <<>>, hexKey |-> <<>>,
               tokenStr |-> NoToken, key |-> NoKey, t1 |-> 0, t2 |-> 0, t |-> 0,
               rnd |-> <<>>, claims |-> ZeroClaims, res |-> NoRes]

\* ----------------------------------------------------- package mailer
\* (src/unnamed/part_000, and the same declarations in src/unnamed/part_001)
ZeroConfig == [SMTPHost |-> "", SMTPPort |-> 0, EmailAccount |-> "", EmailPassword |-> ""]
CfgA == [SMTPHost |-> "smtp.a.test", SMTPPort |-> 587,
         EmailAccount |-> "a@a.test", EmailPassword |-> "pw-a"]
CfgB == [SMTPHost |-> "smtp.b.test", SMTPPort |-> 465,
         EmailAccount |-> "b@b.test", EmailPassword |-> "pw-b"]
ValidConfigs == {CfgA, CfgB}
AllConfigs == ValidConfigs \cup {[CfgA EXCEPT !.EmailAccount = ""],
                                 [CfgA EXCEPT !.EmailPassword = ""],
                                 [CfgA EXCEPT !.SMTPHost = ""],
                                 [CfgA EXCEPT !.SMTPPort = 0]}
ErrAccountEmpty == "email account cannot be empty"
ErrPasswordEmpty == "email password cannot be empty"
ErrHostEmpty == "SMTP host cannot be empty"
ErrPortZero == "SMTP port cannot be zero"
ErrNotInitialized == "mailer not initialized. Call Initialize() first"
ErrDial == "gomail: could not send"

\* the memory a store of the body of Initialize goes to
ConfigFields == {"SMTPHost", "SMTPPort", "EmailAccount", "EmailPassword"}
MailLocs == ConfigFields \cup {"isInitialized"}

MailGoroutines == {1, 2}
\* a goroutine outside any call of the package
IdleMail == [pc |-> "idle", op |-> "none", cfg |-> ZeroConfig, err |-> NilErr,
             used |-> ZeroConfig]
\* the package variables as the program starts; m is the goroutine inside
\* configInit.Do, stores the stores of the body that other goroutines do not
\* see yet, runs how often the body has run
MailerInit == [mailerConfig |-> ZeroConfig, isInitialized |-> FALSE,
               configInit |-> [done |-> FALSE, m |-> 0], stores |-> {},
               from |-> ZeroConfig, runs |-> 0]

\* ---------------------------------------------------- package storage
MaxCalls == 3
DefaultTimeout == 10
ZeroFilesConfig == [BucketName |-> "", CredentialsFile |-> "", Timeout |-> 0]
FilesConfigs == {[BucketName |-> "bucket", CredentialsFile |-> "creds.json", Timeout |-> 0],
                 [BucketName |-> "bucket", CredentialsFile |-> "creds.json", Timeout |-> 30],
                 [BucketName |-> "", CredentialsFile |-> "creds.json", Timeout |-> 30],
                 [BucketName |-> "bucket", CredentialsFile |-> "", Timeout |-> 30]}
MongoConfigs == {[URI |-> "mongodb://db.test", DatabaseName |-> "app"],
                 [URI |-> "", DatabaseName |-> "app"],
                 [URI |-> "mongodb://db.test", DatabaseName |-> ""]}
\* what mongo.Connect and then Ping do
Connections == {"connected", "connect fails", "ping fails"}
ErrBucketEmpty == "bucket name cannot be empty"
ErrCredentialsEmpty == "credentials file path cannot be empty"
ErrURIEmpty == "MongoDB URI cannot be empty"
ErrDatabaseEmpty == "database name cannot be empty"
ErrConnect == "mongo: connect failed"
ErrPing == "mongo: ping failed"
ErrNoClient == "MongoDB client not initialized. Call Initialize() first"
\* the package variables of mongodb.go and files.go as the program starts;
\* configInit and isInitialized are those of files.go
StorageInit == [mongoClientInstance |-> "nil", databaseName |-> "", clientInit |-> FALSE,
                configError |-> NilErr,
                storageConfig |-> ZeroFilesConfig, configInit |-> FALSE,
                isInitialized |-> FALSE]

Init ==
    /\ now = StartTime
    /\ ticks = 0
    /\ call = Idle
    /\ seals = <<>>
    /\ issued = <<>>
    /\ out = NoOut
    /\ th = [self \in Threads |-> IdleThread]
    /\ seen = [i \in 1..MaxLive |-> NoSeen]
    /\ mailer = MailerInit
    /\ mg = [g \in MailGoroutines |-> IdleMail]
    /\ storage = StorageInit
    /\ slog = <<>>

\* the wall clock moves on between two steps of the program
ClockSteps == {1, AccessTTL}

Tick ==
    /\ out = NoOut
    /\ ticks < MaxTicks
    /\ \E d \in ClockSteps : now' = now + d
    /\ ticks' = ticks + 1
    /\ UNCHANGED <<call, seals, issued, out>>
    /\ UNCHANGED otherVars

\* a mint call evaluates ExpiresAt: its first time.Now()
MintBegin(limit) ==
    /\ out = NoOut
    /\ call = Idle
    /\ Len(issued) < limit
    /\ \E op \in {"access", "refresh"}, userId \in Ids, hexKey \in MintKeys :
          call' = [op |-> op, id |-> userId, key |-> hexKey, t1 |-> now]
    /\ UNCHANGED <<now, ticks, seals, issued, out>>
    /\ UNCHANGED otherVars

\* the plaintext under the token r.token that the call r has just sealed
SealedText(r) == r.seals[DecodeString(r.token).bytes[NonceSize + 1][2]].pt

\* what an EncryptData call that returned r leaves behind
Returned(op, userId, hexKey, rnd, t1, r) ==
    /\ out' = [NoOut EXCEPT !.op = op, !.token = r.token, !.key = hexKey, !.t = now,
                            !.panic = r.panic, !.err = r.err]
    /\ seals' = r.seals
    /\ issued' = IF r.panic \/ r.err # NilErr THEN issued
                 ELSE Append(issued, [op |-> op, id |-> userId, key |-> hexKey,
                                      rnd |-> rnd, pt |-> SealedText(r), t1 |-> t1,
                                      t2 |-> now, token |-> r.token])

\* and then IssuedAt, its second time.Now(); marshals, encrypts and returns
MintEnd ==
    /\ call # Idle
    /\ \E rnd \in Nonces :
          Returned(call.op, call.id, call.key, rnd, call.t1,
                   IF call.op = "access"
                   THEN GenerateAccessToken(call.id, call.key, call.t1, now, rnd)
                   ELSE GenerateRefreshToken(call.id, call.key, call.t1, now, rnd))
    /\ call' = Idle
    /\ UNCHANGED <<now, ticks>>
    /\ UNCHANGED otherVars

\* a caller seals a payload of its own with EncryptData
Encrypt(limit) ==
    /\ out = NoOut
    /\ call = Idle
    /\ Len(issued) < limit
    /\ \E pt \in Payloads, hexKey \in MintKeys, rnd \in Nonces :
          Returned("raw", <<>>, hexKey, rnd, now, EncryptData(pt, hexKey, rnd))
    /\ UNCHANGED <<now, ticks, call>>
    /\ UNCHANGED otherVars

Validated(src, p, tokenStr, hexKey) ==
    LET r == ValidateToken(tokenStr, hexKey, now)
    IN  out' = [op |-> "validate", src |-> src, tamper |-> p, token |-> tokenStr,
                key |-> hexKey, t |-> now, panic |-> r.panic, claims |-> r.claims,
                err |-> r.err]

\* a validation that uses the token up: a second one no longer opens it
ValidateConsumes ==
    /\ out = NoOut
    /\ \E i \in 1..Len(issued), hexKey \in HexKeys :
          /\ Validated(i, 0, issued[i].token, hexKey)
          /\ seals' = IF ValidateToken(issued[i].token, hexKey, now).err = NilErr
                       THEN [n \in 1..Len(seals) |->
                                IF seals[n].pt = issued[i].pt /\ seals[n].nonce = issued[i].rnd
                                THEN [seals[n] EXCEPT !.key = <<>>] ELSE seals[n]]
                       ELSE seals
    /\ UNCHANGED <<now, ticks, call, issued>>
    /\ UNCHANGED otherVars

\* ValidateToken on a token an earlier call returned
Validate ==
    /\ out = NoOut
    /\ \E i \in 1..Len(issued), hexKey \in HexKeys :
          Validated(i, 0, issued[i].token, hexKey)
    /\ UNCHANGED <<now, ticks, call, seals, issued>>
    /\ UNCHANGED otherVars

\* ValidateToken on such a token with one sealed byte changed
ValidateTampered ==
    /\ out = NoOut
    /\ \E i \in 1..Len(issued), hexKey \in HexKeys :
          \E p \in TamperAt(issued[i].token) :
             Validated(i, p, Tamper(issued[i].token, p), hexKey)
    /\ UNCHANGED <<now, ticks, call, seals, issued>>
    /\ UNCHANGED otherVars

\* ValidateToken on a string that is no token
ValidateMalformed ==
    /\ out = NoOut
    /\ \E tokenStr \in Malformed, hexKey \in HexKeys :
          Validated(0, 0, tokenStr, hexKey)
    /\ UNCHANGED <<now, ticks, call, seals, issued>>
    /\ UNCHANGED otherVars

\* the caller takes what the call returned
Return ==
    /\ out # NoOut
    /\ out' = NoOut
    /\ UNCHANGED <<now, ticks, call, seals, issued>>
    /\ UNCHANGED otherVars

\* the codec with MaxLive tokens in circulation
Next ==
    \/ Tick
    \/ MintBegin(MaxLive)
    \/ MintEnd
    \/ Encrypt(MaxLive)
    \/ Validate
    \/ ValidateTampered
    \/ ValidateMalformed
    \/ Return

Spec == Init /\ [][Next]_vars

\* the minting calls alone, MaxIssued of them
NextMint ==
    \/ Tick
    \/ MintBegin(MaxIssued)
    \/ MintEnd
    \/ Encrypt(MaxIssued)
    \/ Return

SpecMint == Init /\ [][NextMint]_vars

\* ------------------------------------------- validating a token again
\* the caller takes what the call returned and keeps what ValidateToken gave
\* for a token under the key the token was made with
Remember ==
    /\ out # NoOut
    /\ out' = NoOut
    /\ seen' = IF out.op = "validate" /\ out.src > 0 /\ out.tamper = 0 /\ ~out.panic
                  /\ DecodeString(out.key).bytes = DecodeString(issued[out.src].key).bytes
               THEN [seen EXCEPT ![out.src] =
                       [status |-> IF out.err = NilErr THEN "ok"
                                   ELSE IF out.err = ErrExpired THEN "expired"
                                   ELSE "error",
                        claims |-> out.claims.v,
                        t |-> out.t]]
               ELSE seen
    /\ UNCHANGED <<now, ticks, call, seals, issued, th, mailer, mg, storage, slog>>

\* a caller that mints a token and validates it time and again
NextRepeat ==
    \/ Tick
    \/ MintBegin(MaxLive)
    \/ MintEnd
    \/ Encrypt(MaxLive)
    \/ Validate
    \/ Remember

SpecRepeat == Init /\ [][NextRepeat]_vars

\* ------------------------------------------------- concurrent callers
\* the keys the concurrent calls are given
ConcKeys == {Key1, Key2, KeyHalf}
\* and the subject ids
ConcIds == {<<"u">>}

\* the key of a call kept in one place for all goroutines
LoadKeyShared(ths, self, hexKey) ==
    [g \in Threads |-> [ths[g] EXCEPT !.key = DecodeString(hexKey)]]

\* key, err := hex.DecodeString(hexKey): the key is a local of the call
LoadKey(ths, self, hexKey) ==
    [ths EXCEPT ![self].key = DecodeString(hexKey)]

\* EncryptData from the decoded key on: [panic, token, err, seals]
EncryptWithKey(plaintext, key, rnd) ==
    IF key.err # NilErr
    THEN [panic |-> TRUE, token |-> NoToken, err |-> NilErr, seals |-> seals]
    ELSE IF NewAEAD(key.bytes) # NilErr
    THEN [panic |-> FALSE, token |-> NoToken, err |-> NewAEAD(key.bytes), seals |-> seals]
    ELSE [panic |-> FALSE,
          token |-> EncodeToString(rnd \o Seal(key.bytes, rnd, plaintext)),
          err |-> NilErr,
          seals |-> Sealed(key.bytes, rnd, plaintext)]

\* DecryptData from the decoded key on: [panic, pt, err]
DecryptWithKey(ciphertextHex, key) ==
    LET ciphertext == DecodeString(ciphertextHex)
        nonce == SubSeq(ciphertext.bytes, 1, NonceSize)
        box == SubSeq(ciphertext.bytes, NonceSize + 1, Len(ciphertext.bytes))
        opened == Open(key.bytes, nonce, box)
    IN  IF key.err # NilErr
        THEN [panic |-> TRUE, pt |-> <<>>, err |-> NilErr]
        ELSE IF ciphertext.err # NilErr
        THEN [panic |-> FALSE, pt |-> <<>>, err |-> ciphertext.err]
        ELSE IF NewAEAD(key.bytes) # NilErr
        THEN [panic |-> FALSE, pt |-> <<>>, err |-> NewAEAD(key.bytes)]
        ELSE IF Len(ciphertext.bytes) < NonceSize
        THEN [panic |-> TRUE, pt |-> <<>>, err |-> NilErr]
        ELSE IF opened.err # NilErr
        THEN [panic |-> FALSE, pt |-> <<>>, err |-> opened.err]
        ELSE [panic |-> FALSE, pt |-> opened.pt, err |-> NilErr]

TTL(op) == IF op = "access" THEN AccessTTL ELSE RefreshTTL

\* the calls each goroutine makes: one mints access tokens, the other mints
\* refresh tokens and validates
MintOps(self) == IF self = 1 THEN {"access"} ELSE {"refresh"}
Validators == {2}

\* the wall clock moves on between two steps of the goroutines
ConcClockSteps == {1, AccessTTL + 1}

ThTick ==
    /\ ticks < MaxConcTicks
    /\ \E d \in ConcClockSteps : now' = now + d
    /\ ticks' = ticks + 1
    /\ UNCHANGED <<call, seals, issued, out, th, seen, mailer, mg, storage, slog>>

\* a goroutine enters a mint call and evaluates ExpiresAt: the first time.Now()
ThMintBegin(self) ==
    /\ th[self].pc = "idle"
    /\ Len(issued) < MaxLive
    /\ \E op \in MintOps(self), userId \in ConcIds, hexKey \in ConcKeys :
          th' = [th EXCEPT ![self] = [IdleThread EXCEPT !.pc = "issuedAt", !.op = op,
                                         !.id = userId, !.hexKey = hexKey, !.t1 = now]]
    /\ UNCHANGED <<now, ticks, call, seals, issued, out, seen, mailer, mg, storage, slog>>

\* IssuedAt: the second time.Now()
ThIssuedAt(self) ==
    /\ th[self].pc = "issuedAt"
    /\ th' = [th EXCEPT ![self].pc = "key", ![self].t2 = now]
    /\ UNCHANGED <<now, ticks, call, seals, issued, out, seen, mailer, mg, storage, slog>>

\* EncryptData decodes the key it was given
ThEncryptKey(self) ==
    /\ th[self].pc = "key"
    /\ th' = LoadKey([th EXCEPT ![self].pc = "seal"], self, th[self].hexKey)
    /\ UNCHANGED <<now, ticks, call, seals, issued, out, seen, mailer, mg, storage, slog>>

\* reads the nonce, seals the marshalled claims and returns
ThSeal(self) ==
    /\ th[self].pc = "seal"
    /\ \E rnd \in Nonces :
          LET c == th[self]
              r == EncryptWithKey(Marshal([Id |-> c.id, ExpiresAt |-> c.t1 + TTL(c.op),
                                           IssuedAt |-> c.t2]), c.key, rnd)
          IN  /\ th' = [th EXCEPT ![self].pc = "done", ![self].rnd = rnd,
                                  ![self].res = [NoRes EXCEPT !.panic = r.panic,
                                                              !.token = r.token,
                                                              !.err = r.err]]
              /\ seals' = r.seals
    /\ UNCHANGED <<now, ticks, call, issued, out, seen, mailer, mg, storage, slog>>

\* a goroutine enters ValidateToken; DecryptData decodes the key it was given
ThValidateBegin(self) ==
    /\ self \in Validators
    /\ th[self].pc = "idle"
    /\ \E i \in 1..Len(issued), hexKey \in ConcKeys :
          th' = LoadKey([th EXCEPT ![self] = [IdleThread EXCEPT !.pc = "open",
                                                 !.op = "validate", !.hexKey = hexKey,
                                                 !.tokenStr = issued[i].token]],
                        self, hexKey)
    /\ UNCHANGED <<now, ticks, call, seals, issued, out, seen, mailer, mg, storage, slog>>

\* opens the token and unmarshals the plaintext
ThOpen(self) ==
    /\ th[self].pc = "open"
    /\ LET c == th[self]
           d == DecryptWithKey(c.tokenStr, c.key)
           u == Unmarshal(d.pt)
       IN  th' = [th EXCEPT ![self] =
                     IF d.panic THEN [c EXCEPT !.pc = "done", !.res.panic = TRUE]
                     ELSE IF d.err # NilErr THEN [c EXCEPT !.pc = "done", !.res.err = d.err]
                     ELSE IF u.err # NilErr THEN [c EXCEPT !.pc = "done", !.res.err = u.err]
                     ELSE [c EXCEPT !.pc = "expiry", !.claims = u.claims]]
    /\ UNCHANGED <<now, ticks, call, seals, issued, out, seen, mailer, mg, storage, slog>>

\* compares ExpiresAt with time.Now() and returns
ThExpiry(self) ==
    /\ th[self].pc = "expiry"
    /\ LET c == th[self]
       IN  th' = [th EXCEPT ![self] =
                     IF c.claims.ExpiresAt < now
                     THEN [c EXCEPT !.pc = "done", !.t = now, !.res.err = ErrExpired]
                     ELSE [c EXCEPT !.pc = "done", !.t = now,
                                    !.res.claims = [nil |-> FALSE, v |-> c.claims]]]
    /\ UNCHANGED <<now, ticks, call, seals, issued, out, seen, mailer, mg, storage, slog>>

\* the caller takes what the call returned; a minted token goes into circulation
ThReturn(self) ==
    /\ th[self].pc = "done"
    /\ LET c == th[self]
       IN  issued' = IF c.op = "validate" \/ c.res.panic \/ c.res.err # NilErr
                        \/ Len(issued) >= MaxLive
                     THEN issued
                     ELSE Append(issued,
                                 [op |-> c.op, id |-> c.id, key |-> c.hexKey, rnd |-> c.rnd,
                                  pt |-> Marshal([Id |-> c.id,
                                                  ExpiresAt |-> c.t1 + TTL(c.op),
                                                  IssuedAt |-> c.t2]),
                                  t1 |-> c.t1, t2 |-> c.t2, token |-> c.res.token])
    /\ th' = [th EXCEPT ![self] = IdleThread]
    /\ UNCHANGED <<now, ticks, call, seals, out, seen, mailer, mg, storage, slog>>

\* the codec called from the goroutines of Threads at once
NextConc ==
    \/ ThTick
    \/ \E self \in Threads :
          \/ ThMintBegin(self)
          \/ ThIssuedAt(self)
          \/ ThEncryptKey(self)
          \/ ThSeal(self)
          \/ ThValidateBegin(self)
          \/ ThOpen(self)
          \/ ThExpiry(self)
          \/ ThReturn(self)

SpecConc == Init /\ [][NextConc]_vars
\* ------------------------------------------- package mailer, its calls
\* the checks of the body of Initialize, in their order
ConfigCheck(cfg) ==
    IF cfg.EmailAccount = "" THEN ErrAccountEmpty
    ELSE IF cfg.EmailPassword = "" THEN ErrPasswordEmpty
    ELSE IF cfg.SMTPHost = "" THEN ErrHostEmpty
    ELSE IF cfg.SMTPPort = 0 THEN ErrPortZero
    ELSE NilErr

\* Initialize(cfg): var err error
InitializeBegin(g, cfgs) ==
    /\ mg[g].pc \in {"idle", "returned"}
    /\ \E cfg \in cfgs :
          mg' = [mg EXCEPT ![g] = [IdleMail EXCEPT !.pc = "do", !.op = "init", !.cfg = cfg]]
    /\ UNCHANGED mailer
    /\ UNCHANGED notMailerVars

\* configInit.Do once the body has run: returns at once, err as declared
OnceSkip(g) ==
    /\ mg[g].pc = "do"
    /\ mailer.configInit.done
    /\ mg' = [mg EXCEPT ![g].pc = "returned"]
    /\ UNCHANGED mailer
    /\ UNCHANGED notMailerVars

\* configInit.Do the first time: takes the mutex of the Once and runs the body,
\* which rejects the configuration or stores it and then the flag
OnceBody(g) ==
    /\ mg[g].pc = "do"
    /\ ~mailer.configInit.done
    /\ mailer.configInit.m = 0
    /\ mg' = [mg EXCEPT ![g].pc = "unlock", ![g].err = ConfigCheck(mg[g].cfg)]
    /\ mailer' = IF ConfigCheck(mg[g].cfg) # NilErr
                  THEN [mailer EXCEPT !.configInit.m = g, !.runs = @ + 1]
                  ELSE [mailer EXCEPT !.configInit.m = g, !.runs = @ + 1,
                                      !.stores = MailLocs, !.from = mg[g].cfg]
    /\ UNCHANGED notMailerVars

\* a store of the body reaches the memory the other goroutines read; nothing
\* orders the stores of mailerConfig and of isInitialized for a goroutine
\* that reads them without synchronisation
Flush ==
    /\ \E loc \in mailer.stores :
          mailer' = IF loc = "isInitialized"
                    THEN [mailer EXCEPT !.isInitialized = TRUE, !.stores = @ \ {loc}]
                    ELSE [mailer EXCEPT !.mailerConfig[loc] = mailer.from[loc],
                                        !.stores = @ \ {loc}]
    /\ UNCHANGED mg
    /\ UNCHANGED notMailerVars

\* the body is over: Do sets done and unlocks, which publishes every store of
\* the body; Initialize returns err
OnceDone(g) ==
    /\ mg[g].pc = "unlock"
    /\ mailer.stores = {}
    /\ mailer' = [mailer EXCEPT !.configInit = [done |-> TRUE, m |-> 0]]
    /\ mg' = [mg EXCEPT ![g].pc = "returned"]
    /\ UNCHANGED notMailerVars

\* HandleSendEmail: if !isInitialized
SendGuard(g) ==
    /\ mg[g].pc \in {"idle", "returned"}
    /\ mg' = [mg EXCEPT ![g] =
                 IF mailer.isInitialized
                 THEN [IdleMail EXCEPT !.pc = "dial", !.op = "send"]
                 ELSE [IdleMail EXCEPT !.pc = "returned", !.op = "send",
                                       !.err = ErrNotInitialized]]
    /\ UNCHANGED mailer
    /\ UNCHANGED notMailerVars

\* HandleSendEmail: builds the message and the dialer from mailerConfig, sends
SendDial(g) ==
    /\ mg[g].pc = "dial"
    /\ \E err \in {NilErr, ErrDial} :
          mg' = [mg EXCEPT ![g].pc = "returned", ![g].used = mailer.mailerConfig,
                           ![g].err = err]
    /\ UNCHANGED mailer
    /\ UNCHANGED notMailerVars

\* one goroutine calls Initialize and HandleSendEmail, one call after another
NextMailerSeq ==
    \/ InitializeBegin(1, AllConfigs)
    \/ OnceSkip(1)
    \/ OnceBody(1)
    \/ Flush
    \/ OnceDone(1)
    \/ SendGuard(1)
    \/ SendDial(1)

SpecMailerSeq == Init /\ [][NextMailerSeq]_vars

\* the goroutines call Initialize with valid configurations, and send, at once
NextMailer ==
    \/ Flush
    \/ \E g \in MailGoroutines :
          \/ InitializeBegin(g, ValidConfigs)
          \/ OnceSkip(g)
          \/ OnceBody(g)
          \/ OnceDone(g)
          \/ SendGuard(g)
          \/ SendDial(g)

SpecMailer == Init /\ [][NextMailer]_vars

\* ------------------------------------------ package storage, its calls
\* the body of clientInit.Do in Initialize of mongodb.go
InitializeBody(st, cfg, conn) ==
    IF cfg.URI = "" THEN [st EXCEPT !.clientInit = TRUE, !.configError = ErrURIEmpty]
    ELSE IF cfg.DatabaseName = ""
    THEN [st EXCEPT !.clientInit = TRUE, !.configError = ErrDatabaseEmpty]
    ELSE IF conn = "connect fails"
    THEN [st EXCEPT !.clientInit = TRUE, !.databaseName = cfg.DatabaseName,
                    !.mongoClientInstance = "nil", !.configError = ErrConnect]
    ELSE IF conn = "ping fails"
    THEN [st EXCEPT !.clientInit = TRUE, !.databaseName = cfg.DatabaseName,
                    !.mongoClientInstance = "client", !.configError = ErrPing]
    ELSE [st EXCEPT !.clientInit = TRUE, !.databaseName = cfg.DatabaseName,
                    !.mongoClientInstance = "client", !.configError = NilErr]

\* Initialize(cfg) of mongodb.go: the body once, then return configError
Initialize ==
    /\ Len(slog) < MaxCalls
    /\ \E cfg \in MongoConfigs, conn \in Connections :
          LET st == IF storage.clientInit THEN storage ELSE InitializeBody(storage, cfg, conn)
          IN  /\ storage' = st
              /\ slog' = Append(slog, [op |-> "Initialize", valid |-> cfg.URI # "" /\ cfg.DatabaseName # "",
                                       err |-> st.configError])
    /\ UNCHANGED notStorageVars

\* the body of configInit.Do in InitializeFiles
InitializeFilesBody(st, cfg) ==
    IF cfg.BucketName = "" THEN [st EXCEPT !.configInit = TRUE, !.configError = ErrBucketEmpty]
    ELSE IF cfg.CredentialsFile = ""
    THEN [st EXCEPT !.configInit = TRUE, !.configError = ErrCredentialsEmpty]
    ELSE [st EXCEPT !.configInit = TRUE, !.isInitialized = TRUE,
                    !.storageConfig = IF cfg.Timeout = 0
                                      THEN [cfg EXCEPT !.Timeout = DefaultTimeout]
                                      ELSE cfg]

\* InitializeFiles(cfg): the body once, then return configError
InitializeFiles ==
    /\ Len(slog) < MaxCalls
    /\ \E cfg \in FilesConfigs :
          LET st == IF storage.configInit THEN storage ELSE InitializeFilesBody(storage, cfg)
          IN  /\ storage' = st
              /\ slog' = Append(slog, [op |-> "InitializeFiles",
                                       valid |-> cfg.BucketName # "" /\ cfg.CredentialsFile # "",
                                       err |-> st.configError])
    /\ UNCHANGED notStorageVars

\* getMongoClient(), with which every MongoDB operation starts
getMongoClient ==
    /\ Len(slog) < MaxCalls
    /\ slog' = Append(slog, [op |-> "getMongoClient", valid |-> TRUE,
                             err |-> IF storage.mongoClientInstance = "nil" THEN ErrNoClient
                                     ELSE storage.configError])
    /\ UNCHANGED storage
    /\ UNCHANGED notStorageVars

\* InitializeStorageClient(), with which every file operation starts: the guard
InitializeStorageClient ==
    /\ Len(slog) < MaxCalls
    /\ slog' = Append(slog, [op |-> "InitializeStorageClient", valid |-> TRUE,
                             err |-> IF storage.isInitialized THEN NilErr
                                     ELSE "storage not initialized. Call Initialize() first"])
    /\ UNCHANGED storage
    /\ UNCHANGED notStorageVars

NextStorage ==
    \/ Initialize
    \/ InitializeFiles
    \/ getMongoClient
    \/ InitializeStorageClient

SpecStorage == Init /\ [][NextStorage]_vars

\* ------------------------------------------------------------- claims
\* a key of KeySize bytes in hex
ValidKey(hexKey) ==
    DecodeString(hexKey).err = NilErr /\ Len(DecodeString(hexKey).bytes) = KeySize
\* two hex strings of the same key
SameKey(k1, k2) == DecodeString(k1).bytes = DecodeString(k2).bytes
\* the call that has just returned validated the token issued[out.src] as it is
ValidatedIssued == out.op = "validate" /\ out.src > 0 /\ out.tamper = 0
\* the claims sealed in the token issued[i]
SealedClaims(i) == Unmarshal(issued[i].pt).claims
Returns(c) == ~out.panic /\ out.err = NilErr /\ ~out.claims.nil /\ out.claims.v = c
Fails(e) == ~out.panic /\ out.err = e /\ out.claims.nil

\* C1: validating an access token under its own key before expiry returns no
\* error and Claims with Id = the subject id and ExpiresAt = IssuedAt + 900,
\* whatever the clock does between the two clock reads of the minting.
C1_RoundTripAccess ==
    (/\ ValidatedIssued
     /\ issued[out.src].op = "access"
     /\ out.key = issued[out.src].key
     /\ out.t <= issued[out.src].t1 + AccessTTL)
    => /\ ~out.panic /\ out.err = NilErr /\ ~out.claims.nil
       /\ out.claims.v.Id = issued[out.src].id
       /\ out.claims.v.ExpiresAt = out.claims.v.IssuedAt + AccessTTL

\* C2: validating a token minted under key A with another valid 32-byte key B
\* fails with the authentication error and returns no Claims.
C2_WrongKeyFails ==
    (/\ ValidatedIssued
     /\ ValidKey(out.key)
     /\ ~SameKey(out.key, issued[out.src].key))
    => Fails(ErrOpen)

C2_Witness ==
    /\ ValidatedIssued
    /\ issued[out.src].op = "access"
    /\ issued[out.src].key = Key1
    /\ out.key = Key2
    /\ Fails(ErrOpen)

\* C3: a token with a byte of its nonce, ciphertext or tag changed is rejected
\* with the authentication error under every valid key, and ValidateToken
\* returns Claims only for the bytes a seal under the same key produced.
C3_TamperRejected ==
    /\ (out.op = "validate" /\ out.tamper > 0 /\ ValidKey(out.key)) => Fails(ErrOpen)
    /\ (out.op = "validate" /\ ~out.panic /\ ~out.claims.nil)
       => \E i \in 1..Len(issued) :
             /\ DecodeString(out.token).bytes = DecodeString(issued[i].token).bytes
             /\ SameKey(out.key, issued[i].key)

C3_Witness ==
    /\ out.op = "validate"
    /\ out.src > 0
    /\ out.tamper = NonceSize
    /\ SameKey(out.key, issued[out.src].key)
    /\ out.token # issued[out.src].token
    /\ Fails(ErrOpen)

\* C4: an authentic token validates when the time is at most claims.ExpiresAt,
\* the expiry second included, and fails as expired when it is later.
C4_ExpiryBoundary ==
    (/\ ValidatedIssued
     /\ SameKey(out.key, issued[out.src].key)
     /\ Unmarshal(issued[out.src].pt).err = NilErr)
    => /\ out.t <= SealedClaims(out.src).ExpiresAt => Returns(SealedClaims(out.src))
       /\ out.t > SealedClaims(out.src).ExpiresAt => Fails(ErrExpired)

C4_Witness ==
    /\ ValidatedIssued
    /\ issued[out.src].op = "access"
    /\ out.t = SealedClaims(out.src).ExpiresAt
    /\ Returns(SealedClaims(out.src))

\* C5: ValidateToken given a non-hex string, the empty string or hex of fewer
\* than 12 bytes returns a malformed-token error and never panics.
C5_MalformedRejected ==
    (/\ out.op = "validate"
     /\ ValidKey(out.key)
     /\ \/ DecodeString(out.token).err # NilErr
        \/ Len(DecodeString(out.token).bytes) < NonceSize)
    => /\ ~out.panic
       /\ out.err \in {ErrHexInvalidByte, ErrHexLength}
       /\ out.claims.nil

\* C6: with a key that is not valid hex, GenerateAccessToken,
\* GenerateRefreshToken and ValidateToken return an error and do not panic.
C6_BadKeyIsAnError ==
    (/\ out.op \in {"access", "refresh", "validate"}
     /\ DecodeString(out.key).err # NilErr)
    => ~out.panic /\ out.err # NilErr

\* C7: every return of ValidateToken is (Claims, nil) or (nil, error): never
\* claims with an error, never neither.
C7_ClaimsXorError ==
    (out.op = "validate" /\ ~out.panic) => (out.claims.nil <=> out.err # NilErr)

C7_Witness ==
    /\ out.op = "validate"
    /\ ~out.panic
    /\ out.err = ErrExpired
    /\ out.claims.nil

\* C8: every Claims a mint builds has ExpiresAt > IssuedAt, however the clock
\* advances between the two clock reads.
C8_ExpiresAfterIssued ==
    \A i \in 1..Len(issued) :
        issued[i].op \in {"access", "refresh"}
        => SealedClaims(i).ExpiresAt > SealedClaims(i).IssuedAt

\* C9: the Claims recovered from a refresh token have
\* ExpiresAt = IssuedAt + 604800 exactly.
C9_RefreshWindow ==
    (/\ ValidatedIssued
     /\ issued[out.src].op = "refresh"
     /\ ~out.panic /\ ~out.claims.nil)
    => out.claims.v.ExpiresAt = out.claims.v.IssuedAt + RefreshTTL

\* the nonce a token carries
NonceOf(tokenStr) == DecodeString(SubSeq(tokenStr, 1, 2 * NonceSize)).bytes

\* C10 as stated: no two seals under the same key use the same nonce, so no
\* two mints return the same token string.
C10_NoncesNeverRepeat ==
    \A i, j \in 1..Len(issued) :
        (i # j /\ SameKey(issued[i].key, issued[j].key))
        => /\ NonceOf(issued[i].token) # NonceOf(issued[j].token)
           /\ issued[i].token # issued[j].token

\* C10 amended: every seal uses the bytes it has just read from rand.Reader as
\* its nonce and puts them at the head of the token, so two calls whose reads
\* differ use different nonces and return different token strings.
C10_FreshReadsGiveDistinctTokens ==
    \A i, j \in 1..Len(issued) :
        /\ NonceOf(issued[i].token) = issued[i].rnd
        /\ (i # j /\ issued[i].rnd # issued[j].rnd)
           => /\ NonceOf(issued[i].token) # NonceOf(issued[j].token)
              /\ issued[i].token # issued[j].token

C10_Witness ==
    /\ Len(issued) = 2
    /\ issued[1].op = "access" /\ issued[2].op = "access"
    /\ issued[1].key = issued[2].key
    /\ issued[1].pt = issued[2].pt
    /\ issued[1].rnd # issued[2].rnd
    /\ issued[1].token # issued[2].token

\* what the call of goroutine c returns when it runs alone with the arguments,
\* the clock values and the nonce that c has
Alone(c) ==
    IF c.op = "validate"
    THEN LET r == ValidateToken(c.tokenStr, c.hexKey, c.t)
         IN  [panic |-> r.panic, token |-> NoToken, claims |-> r.claims, err |-> r.err]
    ELSE LET r == IF c.op = "access"
                  THEN GenerateAccessToken(c.id, c.hexKey, c.t1, c.t2, c.rnd)
                  ELSE GenerateRefreshToken(c.id, c.hexKey, c.t1, c.t2, c.rnd)
         IN  [panic |-> r.panic, token |-> r.token, claims |-> NilClaims, err |-> r.err]

\* C11: under every interleaving of concurrent mint and validate calls, each
\* call returns what it returns when it runs alone with its own arguments, the
\* clock values and the nonce it read, whatever key the other calls are given.
C11_CallsAreIndependent ==
    \A self \in Threads : th[self].pc = "done" => th[self].res = Alone(th[self])

C11_Witness ==
    /\ th[1].pc = "done" /\ th[1].op = "access" /\ th[1].hexKey = Key1
    /\ th[1].res.err = NilErr /\ th[1].res.token # NoToken
    /\ th[2].pc = "seal" /\ th[2].hexKey = Key2 /\ th[2].key = DecodeString(Key2)
    /\ th[2].t1 <= th[1].t2

\* a key that is hex of some other number of bytes than KeySize
WrongSizeKey(hexKey) ==
    DecodeString(hexKey).err = NilErr /\ Len(DecodeString(hexKey).bytes) # KeySize
\* nothing was sealed under a key of the wrong size
NoSealUnderWrongSize == \A n \in 1..Len(seals) : Len(seals[n].key) = KeySize

\* C12 as stated: with a key that hex-decodes to another length than 32 bytes
\* EncryptData and DecryptData return the invalid-key error whatever the other
\* argument is, a token that is not valid hex included, and nothing is sealed.
C12_KeySizeErrorAlways ==
    /\ NoSealUnderWrongSize
    /\ (out.op # "none" /\ WrongSizeKey(out.key))
       => ~out.panic /\ out.err = ErrKeyLength

\* C12 amended: with such a key EncryptData returns the invalid-key error and
\* no token, DecryptData returns the invalid-key error for every token that is
\* valid hex (of any length, without slicing or opening it) and the hex error
\* for a token that is not, and nothing is ever sealed under such a key.
C12_KeySizeErrorAfterTokenHex ==
    /\ NoSealUnderWrongSize
    /\ (out.op \in {"raw", "access", "refresh"} /\ WrongSizeKey(out.key))
       => ~out.panic /\ out.err = ErrKeyLength /\ out.token = NoToken
    /\ (out.op = "validate" /\ WrongSizeKey(out.key))
       => /\ ~out.panic /\ out.claims.nil
          /\ out.err = IF DecodeString(out.token).err = NilErr THEN ErrKeyLength
                       ELSE DecodeString(out.token).err

C12_Witness ==
    /\ out.op = "validate"
    /\ out.key = KeyHalf
    /\ out.token = Lit(Rep("0", 2 * NonceSize - 2))
    /\ Fails(ErrKeyLength)

\* the JSON text t is an object with the member k of kind
HasMember(t, k, kind) ==
    /\ Len(t) > 2
    /\ t[1] = "{"
    /\ LET p == ParseMembers(t, 2, <<>>)
       IN  p.ok /\ \E n \in 1..Len(p.members) :
                      p.members[n].key = k /\ p.members[n].kind = kind
\* the three required fields with the correct types
HasAllFields(t) ==
    /\ HasMember(t, KeyId, "string")
    /\ HasMember(t, KeyExpiresAt, "number")
    /\ HasMember(t, KeyIssuedAt, "number")

\* C13: a payload that authenticates and decrypts but lacks one of the three
\* required fields with the correct type makes ValidateToken fail with the
\* malformed-claims error: not with token expired, not with success.
C13_MissingFieldsRejected ==
    (/\ ValidatedIssued
     /\ SameKey(out.key, issued[out.src].key)
     /\ ~HasAllFields(issued[out.src].pt))
    => Fails(ErrJSONSyntax) \/ Fails(ErrJSONType)

\* C14: for every plaintext p and valid key k the token EncryptData returns is
\* 2 * (12 + Len(p) + 16) hex characters, the hex of the 12 nonce bytes and
\* then the sealed bytes with nothing before them, and DecryptData of the
\* token under k returns p.
C14_WireFormat ==
    \A i \in 1..Len(issued) :
        LET e == issued[i]
            bytes == DecodeString(e.token)
        IN  /\ ValidKey(e.key)
            /\ Len(e.token) = 2 * (NonceSize + Len(e.pt) + Overhead)
            /\ bytes.err = NilErr
            /\ SubSeq(bytes.bytes, 1, NonceSize) = e.rnd
            /\ Open(DecodeString(e.key).bytes, e.rnd,
                    SubSeq(bytes.bytes, NonceSize + 1, Len(bytes.bytes)))
               = [err |-> NilErr, pt |-> e.pt]
            /\ DecryptData(e.token, e.key) = [panic |-> FALSE, pt |-> e.pt, err |-> NilErr]

C14_Witness ==
    /\ Len(issued) = 1
    /\ issued[1].op = "raw"
    /\ issued[1].pt = <<"j", "u", "n", "k">>
    /\ Len(issued[1].token) = 64
    /\ DecryptData(issued[1].token, issued[1].key).pt = <<"j", "u", "n", "k">>

\* the time is past the expiry sealed in the token issued[i]
PastExpiry(i, t) == Unmarshal(issued[i].pt).err = NilErr /\ SealedClaims(i).ExpiresAt < t

\* C15: ValidateToken returns token expired only for a token that
\* authenticated under the key it was given and whose claims deserialized; an
\* expired token presented under another valid key or with a byte changed
\* fails with the authentication error.
C15_ExpiredOnlyAfterAuthentication ==
    /\ (out.op = "validate" /\ ~out.panic /\ out.err = ErrExpired)
       => /\ out.src > 0
          /\ out.tamper = 0
          /\ SameKey(out.key, issued[out.src].key)
          /\ PastExpiry(out.src, out.t)
    /\ (/\ out.op = "validate"
        /\ out.src > 0
        /\ ValidKey(out.key)
        /\ PastExpiry(out.src, out.t)
        /\ out.tamper > 0 \/ ~SameKey(out.key, issued[out.src].key))
       => Fails(ErrOpen)

C15_Witness ==
    /\ out.op = "validate"
    /\ out.src > 0
    /\ issued[out.src].op = "access"
    /\ out.tamper = 0
    /\ issued[out.src].key = Key1
    /\ out.key = Key2
    /\ PastExpiry(out.src, out.t)
    /\ Fails(ErrOpen)

\* C16: validation does not use up or change a token. While the clock does not
\* go back, an authentic token validates with the same Claims on every call
\* made no later than ExpiresAt, and once a validation has failed as expired
\* every later one fails as expired.
C16_RepeatValidation ==
    (/\ ValidatedIssued
     /\ SameKey(out.key, issued[out.src].key))
    => /\ out.token = issued[out.src].token
       /\ out.t >= seen[out.src].t
       /\ (Unmarshal(issued[out.src].pt).err = NilErr
            /\ out.t <= SealedClaims(out.src).ExpiresAt)
          => Returns(SealedClaims(out.src))
       /\ (seen[out.src].status = "ok" /\ out.t <= seen[out.src].claims.ExpiresAt)
          => Returns(seen[out.src].claims)
       /\ seen[out.src].status = "expired" => Fails(ErrExpired)

C16_Witness ==
    /\ ValidatedIssued
    /\ issued[out.src].op = "access"
    /\ SameKey(out.key, issued[out.src].key)
    /\ seen[out.src].status = "ok"
    /\ seen[out.src].t < out.t
    /\ Returns(seen[out.src].claims)

\* the expired case of C16: a second validation, later, of an expired token
C16_ExpiredAgain ==
    /\ ValidatedIssued
    /\ SameKey(out.key, issued[out.src].key)
    /\ seen[out.src].status = "expired"
    /\ seen[out.src].t < out.t
    /\ Fails(ErrExpired)

\* C17: over any sequence of mailer.Initialize calls, Initialize returns nil
\* only if the mailer is initialized afterwards, so a HandleSendEmail that
\* follows passes the 'mailer not initialized' guard, also when an earlier
\* Initialize was rejected.
C17_NilMeansInitialized ==
    \A g \in MailGoroutines :
        (mg[g].pc = "returned" /\ mg[g].op = "init" /\ mg[g].err = NilErr)
        => mailer.isInitialized

\* C18: the two initialisers of package storage are independent. After a
\* MongoDB Initialize that returned nil every MongoDB operation gets its
\* client, also after a rejected InitializeFiles; and the first
\* InitializeFiles, called with a valid configuration, returns nil, also
\* after a MongoDB Initialize that failed.
C18_InitialisersIndependent ==
    /\ \A i, j \in 1..Len(slog) :
          (/\ i < j
           /\ slog[i].op = "Initialize" /\ slog[i].err = NilErr
           /\ slog[j].op = "getMongoClient")
          => slog[j].err = NilErr
    /\ \A j \in 1..Len(slog) :
          (/\ slog[j].op = "InitializeFiles" /\ slog[j].valid
           /\ \A i \in 1..(j - 1) : slog[i].op # "InitializeFiles")
          => slog[j].err = NilErr

\* C19: under every interleaving of concurrent Initialize calls with different
\* valid configurations the body runs at most once, one caller's configuration
\* is in mailerConfig and stays there, and a send operation that has seen
\* isInitialized = true works with that complete configuration.
C19_OneCompleteConfiguration ==
    /\ mailer.runs <= 1
    /\ mailer.configInit.done
       => /\ mailer.isInitialized
          /\ mailer.from \in ValidConfigs
          /\ mailer.mailerConfig = mailer.from
    /\ \A g \in MailGoroutines :
          (mg[g].op = "send" /\ mg[g].pc = "returned" /\ mg[g].err # ErrNotInitialized)
          => mg[g].used = mailer.from
====
